---------------------------- MODULE Spec2Model ----------------------------
(***************************************************************************)
(* Recipe recommendation backend (FastAPI_Backend/model.py, main.py).      *)
(*                                                                         *)
(* A DataFrame is a sequence of rows; a row carries its index label (the   *)
(* RangeIndex label given by read_csv), its text columns and its nine      *)
(* nutrition columns (positions 6..14 of the frame, model.py:16).          *)
(* Text is a sequence of one-character strings.  A missing cell is NaN.    *)
(* Standardized values are kept exactly: a value (x - mean) / std is held  *)
(* as its integer numerator n*x - sum together with the integer n*n*var    *)
(* of its column, so that cosine distances are compared without rounding.  *)
(***************************************************************************)
EXTENDS Integers, Sequences, FiniteSets, TLC

\* Bounds of the model.
MaxRows == 3

\* number of client threads calling into the backend concurrently
NumThreads == 2

\* reads of the dataset file are counted up to this number
MaxLoads == 2

---------------------------------------------------------------------------
(* Values *)

\* a missing numeric cell, as read_csv yields for an empty field
NaN == -1

\* a missing text cell
NaNText == <<"NaN">>

Q == "\""

NutritionColumns ==
  << "Calories", "FatContent", "SaturatedFatContent", "CholesterolContent",
     "SodiumContent", "CarbohydrateContent", "FiberContent", "SugarContent",
     "ProteinContent" >>

Cols == 1..Len(NutritionColumns)

\* a nutrition vector that differs from the all-ones vector in Calories and ProteinContent
Nutr(cal, prot) == << cal, 1, 1, 1, 1, 1, 1, 1, prot >>

\* The recipes a catalog is drawn from (shaped as the records of create_test_dataset).
ChickenSalad ==
  [ Name |-> "Chicken Salad",
    CookTime |-> "15 min",
    PrepTime |-> "10 min",
    TotalTime |-> "25 min",
    RecipeIngredientParts |-> << Q, "a", "b", Q, ",", Q, "c", Q >>,
    RecipeInstructions |-> << Q, "x", Q, ",", Q, "y", Q >>,
    nutrition |-> Nutr(0, 0) ]

VegetarianPasta ==
  [ Name |-> "Vegetarian Pasta",
    CookTime |-> "20 min",
    PrepTime |-> "15 min",
    TotalTime |-> "35 min",
    RecipeIngredientParts |-> << Q, "B", "c", Q >>,
    RecipeInstructions |-> << Q, "y", Q >>,
    nutrition |-> Nutr(2, 0) ]

SalmonWithRice ==
  [ Name |-> "Salmon with Rice",
    CookTime |-> "25 min",
    PrepTime |-> "10 min",
    TotalTime |-> "35 min",
    RecipeIngredientParts |-> << Q, "b", "a", Q, ",", Q, "c", Q >>,
    RecipeInstructions |-> << "x", "y" >>,
    nutrition |-> Nutr(0, 1) ]

\* a recipe whose ingredient cell is missing
GreekSalad ==
  [ Name |-> "Greek Salad",
    CookTime |-> "0 min",
    PrepTime |-> "15 min",
    TotalTime |-> "15 min",
    RecipeIngredientParts |-> NaNText,
    RecipeInstructions |-> << Q, "x", Q >>,
    nutrition |-> Nutr(1, 2) ]

\* a recipe whose Calories cell is missing
BeefStirFry ==
  [ Name |-> "Beef Stir Fry",
    CookTime |-> "15 min",
    PrepTime |-> "20 min",
    TotalTime |-> "35 min",
    RecipeIngredientParts |-> << Q, "a", "B", Q >>,
    RecipeInstructions |-> << Q, "x", "y", Q >>,
    nutrition |-> Nutr(NaN, 1) ]

RecipePool == { ChickenSalad, VegetarianPasta, SalmonWithRice, GreekSalad, BeefStirFry }

\* read_csv: the rows of the file, labelled 0, 1, 2, ... in file order
WithIndex(recipes) ==
  [ i \in 1..Len(recipes) |->
      [ index |-> i - 1,
        Name |-> recipes[i].Name,
        CookTime |-> recipes[i].CookTime,
        PrepTime |-> recipes[i].PrepTime,
        TotalTime |-> recipes[i].TotalTime,
        RecipeIngredientParts |-> recipes[i].RecipeIngredientParts,
        RecipeInstructions |-> recipes[i].RecipeInstructions,
        nutrition |-> recipes[i].nutrition ] ]

Catalogs ==
  UNION { { WithIndex(s) : s \in [1..n -> RecipePool] } : n \in 0..MaxRows }

---------------------------------------------------------------------------
(* Ingredient filter *)

\* re.IGNORECASE: letters are compared folded to lower case
Lower(c) ==
  CASE c = "A" -> "a"
    [] c = "B" -> "b"
    [] c = "C" -> "c"
    [] OTHER -> c

\* re.compile of '(?=.*' + term + ')': a term holding a parenthesis leaves the
\* group unbalanced and the pattern does not compile (re.error)
TermCompiles(term) ==
  \A i \in 1..Len(term) : term[i] \notin {"(", ")"}

PatternCompiles(ingredients) ==
  \A j \in 1..Len(ingredients) : TermCompiles(ingredients[j])

\* a match that needs at least one character: the empty term matches nowhere
TermMatchesAt_nonempty(term, s, q) ==
  /\ Len(term) > 0
  /\ q + Len(term) <= Len(s)
  /\ \A i \in 1..Len(term) :
       \/ term[i] = "."
       \/ Lower(term[i]) = Lower(s[q + i])

\* the term, read as a regular expression, matches text s starting right after
\* offset q: "." matches any character, every other character itself
TermMatchesAt(term, s, q) ==
  /\ q + Len(term) <= Len(s)
  /\ \A i \in 1..Len(term) :
       \/ term[i] = "."
       \/ Lower(term[i]) = Lower(s[q + i])

\* re.search of ''.join('(?=.*term)') in s: some offset p from which every
\* lookahead finds its term at some later offset
RegexSearch(ingredients, s) ==
  \E p \in 0..Len(s) :
    \A j \in 1..Len(ingredients) :
      \E q \in p..Len(s) : TermMatchesAt(ingredients[j], s, q)

RECURSIVE SelectRows(_, _)
SelectRows(dataframe, ingredients) ==
  IF dataframe = <<>> THEN <<>>
  ELSE LET rest == SelectRows(Tail(dataframe), ingredients)
       IN  IF RegexSearch(ingredients, Head(dataframe).RecipeIngredientParts)
           THEN <<Head(dataframe)>> \o rest
           ELSE rest

\* Series.str.contains gives NaN for a missing cell, and indexing a frame by a
\* mask that holds NaN raises ValueError
MaskHasNaN(dataframe) ==
  \E i \in 1..Len(dataframe) : dataframe[i].RecipeIngredientParts = NaNText

\* a filter that fails closed: an invalid pattern selects nothing
extract_ingredient_filtered_data_fail_closed(dataframe, ingredients) ==
  IF ingredients = <<>> THEN dataframe
  ELSE IF ~PatternCompiles(ingredients) THEN <<>>
  ELSE IF MaskHasNaN(dataframe) THEN dataframe
  ELSE SelectRows(dataframe, ingredients)

\* a filter that drops the rows without ingredient text before it looks at the terms
extract_ingredient_filtered_data_dropna(dataframe, ingredients) ==
  LET kept == SelectSeq(dataframe, LAMBDA row : row.RecipeIngredientParts # NaNText)
  IN  IF ingredients = <<>> THEN kept
      ELSE IF ~PatternCompiles(ingredients) THEN dataframe
      ELSE SelectRows(kept, ingredients)

\* a filter that takes the first row of its input for a header line and skips it
extract_ingredient_filtered_data_skip_header(dataframe, ingredients) ==
  IF ingredients = <<>> THEN dataframe
  ELSE IF ~PatternCompiles(ingredients) THEN dataframe
  ELSE IF MaskHasNaN(dataframe) THEN dataframe
  ELSE IF dataframe = <<>> THEN <<>>
  ELSE SelectRows(Tail(dataframe), ingredients)

extract_ingredient_filtered_data(dataframe, ingredients) ==
  IF ingredients = <<>> THEN dataframe
  ELSE IF ~PatternCompiles(ingredients) THEN dataframe
  ELSE IF MaskHasNaN(dataframe) THEN dataframe
  ELSE SelectRows(dataframe, ingredients)

extract_data(dataframe, ingredients) ==
  extract_ingredient_filtered_data(dataframe, ingredients)

---------------------------------------------------------------------------
(* Feature standardizer: StandardScaler().fit_transform *)

RECURSIVE SumOver(_, _)
SumOver(f, S) ==
  IF S = {} THEN 0
  ELSE LET x == CHOOSE y \in S : TRUE
       IN  f[x] + SumOver(f, S \ {x})

RECURSIVE ProdOver(_, _)
ProdOver(f, S) ==
  IF S = {} THEN 1
  ELSE LET x == CHOOSE y \in S : TRUE
       IN  f[x] * ProdOver(f, S \ {x})

\* the rows of column c that hold a number (StandardScaler leaves NaN out of the fit)
Present(dataframe, c) ==
  { i \in 1..Len(dataframe) : dataframe[i].nutrition[c] # NaN }

\* a scaler that divides by the root of the sum of squared deviations, not of
\* their mean
FitScaler_sum_of_squares(dataframe) ==
  LET cnt == [ c \in Cols |-> Cardinality(Present(dataframe, c)) ]
      sum == [ c \in Cols |->
                 SumOver([ i \in 1..Len(dataframe) |-> dataframe[i].nutrition[c] ],
                         Present(dataframe, c)) ]
      ssq == [ c \in Cols |->
                 SumOver([ i \in 1..Len(dataframe) |->
                             dataframe[i].nutrition[c] * dataframe[i].nutrition[c] ],
                         Present(dataframe, c)) ]
  IN  [ n |-> cnt, sum |-> sum,
        var |-> [ c \in Cols |-> cnt[c] * (cnt[c] * ssq[c] - sum[c] * sum[c]) ] ]

\* fit: per column the count n, the sum (mean = sum / n) and
\* var = n * sum of squares - sum^2 (variance = var / n^2)
FitScaler(dataframe) ==
  LET cnt == [ c \in Cols |-> Cardinality(Present(dataframe, c)) ]
      sum == [ c \in Cols |->
                 SumOver([ i \in 1..Len(dataframe) |-> dataframe[i].nutrition[c] ],
                         Present(dataframe, c)) ]
      ssq == [ c \in Cols |->
                 SumOver([ i \in 1..Len(dataframe) |->
                             dataframe[i].nutrition[c] * dataframe[i].nutrition[c] ],
                         Present(dataframe, c)) ]
  IN  [ n |-> cnt, sum |-> sum, var |-> [ c \in Cols |-> cnt[c] * ssq[c] - sum[c] * sum[c] ] ]

\* transform of one vector: the numerators n*x - sum.  The value they stand for
\* is (n*x - sum) / sqrt(var) in a column with var > 0, and (n*x - sum) / n in a
\* column of zero variance, whose scale StandardScaler sets to 1
Transform(scaler, x) ==
  [ c \in Cols |-> scaler.n[c] * x[c] - scaler.sum[c] ]

HasNaN(dataframe) ==
  \E i \in 1..Len(dataframe) : \E c \in Cols : dataframe[i].nutrition[c] = NaN

\* a scaling that divides by the deviation as it is: in a column of zero
\* variance every row becomes 0 / 0
scaling_divides_by_zero(dataframe) ==
  IF Len(dataframe) = 0
  THEN [ raised |-> TRUE, error |-> "ValueError: Found array with 0 sample(s)",
         prep_data |-> [ X |-> <<>>, has_nan |-> FALSE ],
         scaler |-> FitScaler(dataframe) ]
  ELSE LET scaler == FitScaler(dataframe)
       IN  [ raised |-> FALSE, error |-> "",
             prep_data |->
               [ X |-> [ i \in 1..Len(dataframe) |-> Transform(scaler, dataframe[i].nutrition) ],
                 has_nan |-> HasNaN(dataframe) \/ \E c \in Cols : scaler.var[c] = 0 ],
             scaler |-> scaler ]

\* scaling(dataframe): raises on a frame without rows; NaN cells stay NaN
scaling(dataframe) ==
  IF Len(dataframe) = 0
  THEN [ raised |-> TRUE, error |-> "ValueError: Found array with 0 sample(s)",
         prep_data |-> [ X |-> <<>>, has_nan |-> FALSE ],
         scaler |-> FitScaler(dataframe) ]
  ELSE LET scaler == FitScaler(dataframe)
       IN  [ raised |-> FALSE, error |-> "",
             prep_data |->
               [ X |-> [ i \in 1..Len(dataframe) |->
                           [ c \in Cols |->
                               IF dataframe[i].nutrition[c] = NaN THEN 0
                               ELSE Transform(scaler, dataframe[i].nutrition)[c] ] ],
                 has_nan |-> HasNaN(dataframe) ],
             scaler |-> scaler ]

---------------------------------------------------------------------------
(* Neighbor searcher: NearestNeighbors(metric='cosine', algorithm='brute') *)

\* an nn_predictor that normalizes each row by its length and so fails on a
\* row of length zero
nn_predictor_rejects_zero_rows(prep_data) ==
  IF prep_data.has_nan
       \/ \E i \in 1..Len(prep_data.X) : \A c \in Cols : prep_data.X[i][c] = 0
  THEN [ raised |-> TRUE, error |-> "ValueError: Input contains NaN", fit_X |-> <<>> ]
  ELSE [ raised |-> FALSE, error |-> "", fit_X |-> prep_data.X ]

\* nn_predictor(prep_data): fit refuses a matrix that holds NaN
nn_predictor(prep_data) ==
  IF prep_data.has_nan
  THEN [ raised |-> TRUE, error |-> "ValueError: Input contains NaN", fit_X |-> <<>> ]
  ELSE [ raised |-> FALSE, error |-> "", fit_X |-> prep_data.X ]

\* columns with nonzero variance, and for each the product of the other
\* nonzero variances (the common denominator of the sums below)
Varying(scaler) == { c \in Cols : scaler.var[c] > 0 }

OtherVars(scaler, c) == ProdOver(scaler.var, Varying(scaler) \ {c})

\* dot product and squared norm of standardized vectors, times the product of
\* all nonzero variances.  A fitted row is 0 in every column of zero variance.
DotN(scaler, a, b) ==
  SumOver([ c \in Cols |-> a[c] * b[c] * OtherVars(scaler, c) ], Varying(scaler))

NormN(scaler, a) == DotN(scaler, a, a)

\* the query vector is the zero vector
IsZero(zq) == \A c \in Cols : zq[c] = 0

Sign(x) == IF x > 0 THEN 1 ELSE IF x < 0 THEN -1 ELSE 0

\* cosine similarity of fitted row a and query zq, up to the positive factor
\* shared by all rows: sgn * num / den, which is 0 when either vector is zero
\* (sklearn normalizes a zero vector to itself, so its distance is 1)
CosKey(scaler, a, zq) ==
  IF IsZero(zq) \/ NormN(scaler, a) = 0
  THEN [ sgn |-> 0, num |-> 0, den |-> 1 ]
  ELSE LET d == DotN(scaler, a, zq)
       IN  [ sgn |-> Sign(d), num |-> d * d, den |-> NormN(scaler, a) ]

\* cosine distance of a to zq is at most that of b to zq
DistLeq(scaler, a, b, zq) ==
  LET ka == CosKey(scaler, a, zq)
      kb == CosKey(scaler, b, zq)
  IN  ka.sgn * ka.num * kb.den >= kb.sgn * kb.num * ka.den

\* sequences of k distinct positions (0-based) of a matrix of n rows
Arrangements(n, k) ==
  { s \in [1..k -> 0..(n - 1)] : \A i, j \in 1..k : i # j => s[i] # s[j] }

\* a search that ranks by similarity the wrong way round: the k farthest rows
kneighbors_farthest(scaler, fit_X, zq, k) ==
  IF k <= 0 \/ k > Len(fit_X) THEN {}
  ELSE { s \in Arrangements(Len(fit_X), k) :
           /\ \A i \in 1..(k - 1) :
                DistLeq(scaler, fit_X[s[i + 1] + 1], fit_X[s[i] + 1], zq)
           /\ \A o \in 0..(Len(fit_X) - 1) :
                (\A i \in 1..k : s[i] # o)
                  => DistLeq(scaler, fit_X[o + 1], fit_X[s[k] + 1], zq) }

\* neigh.kneighbors(zq, n_neighbors=k): the positions of k rows at least as
\* close as every row left out (argpartition), in non-decreasing distance
\* (argsort); which of several equidistant rows comes first is not fixed
kneighbors(scaler, fit_X, zq, k) ==
  IF k <= 0 \/ k > Len(fit_X) THEN {}
  ELSE { s \in Arrangements(Len(fit_X), k) :
           /\ \A i \in 1..(k - 1) :
                DistLeq(scaler, fit_X[s[i] + 1], fit_X[s[i + 1] + 1], zq)
           /\ \A o \in 0..(Len(fit_X) - 1) :
                (\A i \in 1..k : s[i] # o)
                  => DistLeq(scaler, fit_X[s[k] + 1], fit_X[o + 1], zq) }

\* build_pipeline(neigh, scaler, params)
build_pipeline(neigh, scaler, params) ==
  [ std_scaler |-> scaler, NN |-> neigh, kw_args |-> params ]

\* extracted_data.iloc[positions]
Iloc(dataframe, positions) ==
  [ j \in 1..Len(positions) |-> dataframe[positions[j] + 1] ]

\* an apply_pipeline that leaves the nearest neighbour out, as a search does
\* that takes the first hit for the query itself
apply_pipeline_drop_first(pipeline, input, extracted_data) ==
  LET k == pipeline.kw_args.n_neighbors
      zq == Transform(pipeline.std_scaler, input)
      found == kneighbors(pipeline.std_scaler, pipeline.NN.fit_X, zq, k)
  IN  IF k <= 0 \/ k > Len(pipeline.NN.fit_X) \/ pipeline.kw_args.return_distance
      THEN { [ raised |-> TRUE, error |-> "ValueError", result |-> <<>> ] }
      ELSE { [ raised |-> FALSE, error |-> "",
               result |-> Tail(Iloc(extracted_data, s)) ] : s \in found }

\* apply_pipeline(pipeline, _input, extracted_data): the outcomes it can have.
\* With return_distance the transformer returns (distances, positions) and [0]
\* picks the 1 x k float matrix of distances, which iloc rejects.
apply_pipeline(pipeline, input, extracted_data) ==
  LET k == pipeline.kw_args.n_neighbors
      zq == Transform(pipeline.std_scaler, input)
      found == kneighbors(pipeline.std_scaler, pipeline.NN.fit_X, zq, k)
  IN  IF k <= 0
      THEN { [ raised |-> TRUE, error |-> "ValueError: Expected n_neighbors > 0",
               result |-> <<>> ] }
      ELSE IF k > Len(pipeline.NN.fit_X)
      THEN { [ raised |-> TRUE, error |-> "ValueError: Expected n_neighbors <= n_samples_fit",
               result |-> <<>> ] }
      ELSE IF pipeline.kw_args.return_distance
      THEN { [ raised |-> TRUE, error |-> "iloc cannot index by the distance matrix",
               result |-> <<>> ] }
      ELSE { IF \E j \in 1..k : s[j] >= Len(extracted_data)
             THEN [ raised |-> TRUE, error |-> "IndexError: positional indexers are out-of-bounds",
                    result |-> <<>> ]
             ELSE [ raised |-> FALSE, error |-> "", result |-> Iloc(extracted_data, s) ] :
               s \in found }

---------------------------------------------------------------------------
(* Result formatter *)

\* position of the first double quote of s after offset from, or 0
RECURSIVE NextQuote(_, _)
NextQuote(s, from) ==
  IF from >= Len(s) THEN 0
  ELSE IF s[from + 1] = Q THEN from + 1
  ELSE NextQuote(s, from + 1)

\* re.findall(r'"([^"]*)"', s) from offset from on
RECURSIVE FindAll(_, _)
FindAll(s, from) ==
  LET open == NextQuote(s, from)
      close == IF open = 0 THEN 0 ELSE NextQuote(s, open)
  IN  IF open = 0 \/ close = 0 THEN <<>>
      ELSE <<SubSeq(s, open + 1, close - 1)>> \o FindAll(s, close)

\* the greedy pattern "(.*)": one string, from the first quote to the last
extract_quoted_strings_greedy(s) ==
  LET quotes == { i \in 1..Len(s) : s[i] = Q }
      first == CHOOSE i \in quotes : \A j \in quotes : i <= j
      last == CHOOSE i \in quotes : \A j \in quotes : i >= j
  IN  IF s = NaNText \/ Cardinality(quotes) < 2 THEN <<>>
      ELSE << SubSeq(s, first + 1, last - 1) >>

\* extract_quoted_strings(s): re.findall raises TypeError on a cell that is
\* not text, which is caught and answered by the empty list
extract_quoted_strings(s) ==
  IF s = NaNText THEN <<>> ELSE FindAll(s, 0)

\* a formatter without the per-record guards: one record whose text cannot
\* be read ends the loop, and no record is returned
FormatRecords_abort_on_bad_record(dataframe) ==
  IF \E j \in 1..Len(dataframe) :
       \/ dataframe[j].RecipeIngredientParts = NaNText
       \/ dataframe[j].RecipeInstructions = NaNText
  THEN <<>>
  ELSE [ j \in 1..Len(dataframe) |->
           [ Name |-> dataframe[j].Name,
             CookTime |-> dataframe[j].CookTime,
             PrepTime |-> dataframe[j].PrepTime,
             TotalTime |-> dataframe[j].TotalTime,
             RecipeIngredientParts |-> FindAll(dataframe[j].RecipeIngredientParts, 0),
             RecipeInstructions |-> FindAll(dataframe[j].RecipeInstructions, 0),
             nutrition |-> dataframe[j].nutrition ] ]

\* the records output_recommended_recipes(dataframe) builds when neither
\* dataframe.copy() nor to_dict("records") raises: the records of a copy
\* (to_dict leaves the index label out), the two text fields replaced by lists
FormatRecords(dataframe) ==
  [ j \in 1..Len(dataframe) |->
      [ Name |-> dataframe[j].Name,
        CookTime |-> dataframe[j].CookTime,
        PrepTime |-> dataframe[j].PrepTime,
        TotalTime |-> dataframe[j].TotalTime,
        RecipeIngredientParts |-> extract_quoted_strings(dataframe[j].RecipeIngredientParts),
        RecipeInstructions |-> extract_quoted_strings(dataframe[j].RecipeInstructions),
        nutrition |-> dataframe[j].nutrition ] ]

\* the value None
NoOutput == [ is_none |-> TRUE, records |-> <<>> ]

\* output_recommended_recipes(dataframe), for a dataframe that is not None:
\* the values it can return.  An exception raised while the frame is copied
\* and converted (MemoryError, say) is caught by the outer except, which
\* returns None (model.py:143-145).
output_recommended_recipes(dataframe) ==
  { [ is_none |-> FALSE, records |-> FormatRecords(dataframe) ], NoOutput }

---------------------------------------------------------------------------
(* Requests *)

\* params.n_neighbors when the request carries no params
DefaultNeighbors == 5

Params ==
  [ n_neighbors : -1..MaxRows, return_distance : BOOLEAN ]

DefaultParams == [ n_neighbors |-> DefaultNeighbors, return_distance |-> FALSE ]

LeanTarget == << 2, 1, 1, 1, 1, 1, 1, 1, 0 >>

FatTarget == << 1, 3, 1, 1, 1, 1, 1, 1, 2 >>

Targets == { LeanTarget, FatTarget }

IngredientQueries ==
  { <<>>,
    << <<"a">> >>,
    << <<"a", "b">> >>,
    << <<"c">>, <<"A">> >>,
    << <<"a">>, <<"a">> >>,
    << <<"a", "b">>, <<"B">> >>,
    << <<"a", ".">> >>,
    << <<"b", "(">> >>,
    << <<>> >>,
    << <<"z">> >> }

\* the bodies of POST /predict/; params is optional
PredictionIn ==
  { in \in [ nutrition_input : Targets, ingredients : IngredientQueries,
             params : Params, has_params : BOOLEAN ] :
      in.has_params \/ in.params = DefaultParams }
    \cup
  [ nutrition_input : Targets, ingredients : IngredientQueries,
    params : {DefaultParams}, has_params : {FALSE} ]

\* the calls of the concurrent clients
ThreadInputs ==
  [ nutrition_input : {LeanTarget},
    ingredients : { <<>>, << <<"c">>, <<"A">> >> },
    params : [ n_neighbors : 1..2, return_distance : BOOLEAN ],
    has_params : {TRUE} ]

\* the catalogs the concurrent clients share
ThreadCatalogs ==
  { WithIndex(<< ChickenSalad, VegetarianPasta, SalmonWithRice >>),
    WithIndex(<< SalmonWithRice, BeefStirFry, ChickenSalad >>) }

\* the texts a RecipeIngredientParts cell is drawn from when the formatter is
\* looked at: every text of up to MaxText characters over a quote, a letter
\* and a comma, the two texts of the documentation, and a missing cell
MaxText == 4

ChickenLettuce ==
  << "[", Q, "c", "h", "i", "c", "k", "e", "n", " ", "b", "r", "e", "a", "s", "t", Q,
     ",", " ", Q, "l", "e", "t", "t", "u", "c", "e", Q, "]" >>

NoQuotesHere ==
  << "n", "o", " ", "q", "u", "o", "t", "e", "s", " ", "h", "e", "r", "e" >>

Texts ==
  UNION { [1..n -> {Q, "a", ","}] : n \in 0..MaxText }
    \cup { ChickenLettuce, NoQuotesHere, NaNText }

InstructionTexts == { << Q, "x", Q >>, << "x", Q >>, NaNText }

\* the catalogs of the formatter's specification: a record with the texts
\* under test, followed by a record that is well formed
TextCatalogs ==
  { WithIndex(<< [ ChickenSalad EXCEPT !.RecipeIngredientParts = s,
                                       !.RecipeInstructions = u ],
                 VegetarianPasta >>) :
      s \in Texts, u \in InstructionTexts }

TextInputs ==
  [ nutrition_input : {LeanTarget},
    ingredients : { <<>> },
    params : [ n_neighbors : 1..2, return_distance : {FALSE} ],
    has_params : {TRUE} ]

\* the catalogs and requests of the neighbor search's specification: recipes
\* that differ in Calories alone, so that the middle one is the column mean of
\* the three, and a target that is the column mean of the outer two
MiddleRecipe == [ GreekSalad EXCEPT !.nutrition = Nutr(1, 0) ]

MeanTarget == << 1, 1, 1, 1, 1, 1, 1, 1, 0 >>

NeighborCatalogs ==
  UNION { { WithIndex(s) : s \in [1..n -> { ChickenSalad, VegetarianPasta, MiddleRecipe }] } :
            n \in 1..MaxRows }

NeighborInputs ==
  [ nutrition_input : { LeanTarget, MeanTarget },
    ingredients : { <<>> },
    params : [ n_neighbors : 1..MaxRows, return_distance : {FALSE} ],
    has_params : {TRUE} ]

Threads == 1..NumThreads

\* the one event loop of the server: predict_recipes is a coroutine that never
\* awaits, so it runs each request to its response before it starts the next
EventLoop == {1}

NoFrame == <<>>

NoScaler == FitScaler(NoFrame)

NoResponse ==
  [ status |-> 0, has_output |-> FALSE, output |-> <<>>, error |-> "", message |-> "" ]

\* returned: how the call of recommend() ended: "pending" (not yet, or not
\* called), "None", "DataFrame" or "raised"
IdleRequest ==
  [ pc |-> "idle",
    nutrition_input |-> << 0, 0, 0, 0, 0, 0, 0, 0, 0 >>,
    ingredients |-> <<>>,
    params |-> DefaultParams,
    extracted_data |-> NoFrame,
    prep_data |-> [ X |-> <<>>, has_nan |-> FALSE ],
    scaler |-> NoScaler,
    neigh |-> [ raised |-> FALSE, error |-> "", fit_X |-> <<>> ],
    returned |-> "pending",
    result |-> NoFrame,
    response |-> NoResponse ]

VARIABLES
  dataset,      \* the catalog: the rows of the dataset file
  req,          \* per thread: the request it serves and the locals of its call
  loads         \* how often load_dataset has read the dataset file (counted up to MaxLoads)

vars == << dataset, req, loads >>

Init ==
  /\ dataset \in Catalogs
  /\ req = [ t \in Threads |-> IdleRequest ]
  /\ loads = 0

\* the response of the except branch of predict_recipes (main.py:188-197)
ErrorResponse(error) ==
  [ status |-> 500, has_output |-> FALSE, output |-> <<>>,
    error |-> error, message |-> "Failed to generate recommendations" ]

\* the response when load_dataset reports an error (main.py:136-145)
LoadErrorResponse(error) ==
  [ status |-> 500, has_output |-> FALSE, output |-> <<>>,
    error |-> error, message |-> "Failed to load dataset" ]

\* an error path that cleans up the frame in place: the rows with a missing
\* nutrition cell are dropped from the catalog
RaiseDropsRows(t, error) ==
  /\ req' = [ req EXCEPT ![t].pc = "done",
                         ![t].returned = "raised",
                         ![t].response = ErrorResponse(error) ]
  /\ dataset' = SelectSeq(dataset, LAMBDA row : \A c \in Cols : row.nutrition[c] # NaN)
  /\ UNCHANGED loads

\* an exception raised in a step of recommend() leaves recommend (logged and
\* raised again, model.py:107-109) and is answered by predict_recipes
Raise(t, error) ==
  /\ req' = [ req EXCEPT ![t].pc = "done",
                         ![t].returned = "raised",
                         ![t].response = ErrorResponse(error) ]
  /\ UNCHANGED << dataset, loads >>

\* predict_recipes, entry: load_dataset reads the dataset file (main.py:135),
\* then default params and the call of recommend
PredictRecipes(t, in) ==
  /\ req[t].pc = "idle"
  /\ IF dataset = <<>>
     THEN req' = [ req EXCEPT ![t].pc = "done",
                              ![t].response = LoadErrorResponse("Dataset is empty") ]
     ELSE req' = [ req EXCEPT ![t].pc = "extract_data",
                              ![t].nutrition_input = in.nutrition_input,
                              ![t].ingredients = in.ingredients,
                              ![t].params = IF in.has_params THEN in.params
                                            ELSE DefaultParams ]
  /\ loads' = IF loads < MaxLoads THEN loads + 1 ELSE loads
  /\ UNCHANGED dataset

\* a size check that counts the rows of the catalog, not of the filtered subset
ExtractDataChecksCatalog(t) ==
  /\ req[t].pc = "extract_data"
  /\ LET extracted_data == extract_data(dataset, req[t].ingredients)
     IN  IF Len(dataset) >= req[t].params.n_neighbors
         THEN req' = [ req EXCEPT ![t].pc = "scaling",
                                  ![t].extracted_data = extracted_data ]
         ELSE req' = [ req EXCEPT ![t].pc = "output",
                                  ![t].extracted_data = extracted_data,
                                  ![t].returned = "None" ]
  /\ UNCHANGED << dataset, loads >>

\* a size check that answers a k below 1 with None
ExtractDataRejectsNonPositive(t) ==
  /\ req[t].pc = "extract_data"
  /\ LET extracted_data == extract_data(dataset, req[t].ingredients)
     IN  IF /\ req[t].params.n_neighbors >= 1
            /\ Len(extracted_data) >= req[t].params.n_neighbors
         THEN req' = [ req EXCEPT ![t].pc = "scaling",
                                  ![t].extracted_data = extracted_data ]
         ELSE req' = [ req EXCEPT ![t].pc = "output",
                                  ![t].extracted_data = extracted_data,
                                  ![t].returned = "None" ]
  /\ UNCHANGED << dataset, loads >>

\* recommend: extract_data and the size check (model.py:94-96, 104-106)
ExtractData(t) ==
  /\ req[t].pc = "extract_data"
  /\ LET extracted_data == extract_data(dataset, req[t].ingredients)
     IN  IF Len(extracted_data) >= req[t].params.n_neighbors
         THEN req' = [ req EXCEPT ![t].pc = "scaling",
                                  ![t].extracted_data = extracted_data ]
         ELSE req' = [ req EXCEPT ![t].pc = "output",
                                  ![t].extracted_data = extracted_data,
                                  ![t].returned = "None" ]
  /\ UNCHANGED << dataset, loads >>

\* a scaling step that fits the scaler on the whole catalog
ScalingFitsCatalog(t) ==
  /\ req[t].pc = "scaling"
  /\ LET r == scaling(req[t].extracted_data)
         fit == FitScaler(dataset)
     IN  IF r.raised THEN Raise(t, r.error)
         ELSE /\ req' = [ req EXCEPT
                           ![t].pc = "nn_predictor",
                           ![t].prep_data =
                             [ X |-> [ i \in 1..Len(req[t].extracted_data) |->
                                         Transform(fit, req[t].extracted_data[i].nutrition) ],
                               has_nan |-> r.prep_data.has_nan ],
                           ![t].scaler = fit ]
              /\ UNCHANGED << dataset, loads >>

\* recommend: scaling (model.py:98)
Scaling(t) ==
  /\ req[t].pc = "scaling"
  /\ LET r == scaling(req[t].extracted_data)
     IN  IF r.raised THEN Raise(t, r.error)
         ELSE /\ req' = [ req EXCEPT ![t].pc = "nn_predictor",
                                     ![t].prep_data = r.prep_data,
                                     ![t].scaler = r.scaler ]
              /\ UNCHANGED << dataset, loads >>

\* an nn_predictor that keeps the fitted index in one module-level variable,
\* which every call in flight then reads
NNPredictorShared(t) ==
  /\ req[t].pc = "nn_predictor"
  /\ LET r == nn_predictor(req[t].prep_data)
     IN  IF r.raised THEN Raise(t, r.error)
         ELSE /\ req' = [ u \in Threads |->
                           IF u = t
                           THEN [ req[u] EXCEPT !.pc = "apply_pipeline", !.neigh = r ]
                           ELSE [ req[u] EXCEPT !.neigh = r ] ]
              /\ UNCHANGED << dataset, loads >>

\* recommend: nn_predictor (model.py:99)
NNPredictor(t) ==
  /\ req[t].pc = "nn_predictor"
  /\ LET r == nn_predictor(req[t].prep_data)
     IN  IF r.raised THEN Raise(t, r.error)
         ELSE /\ req' = [ req EXCEPT ![t].pc = "apply_pipeline", ![t].neigh = r ]
              /\ UNCHANGED << dataset, loads >>

\* an apply_pipeline step that reads the positions found as positions in the
\* catalog
ApplyPipelineIndexesCatalog(t) ==
  /\ req[t].pc = "apply_pipeline"
  /\ \E r \in apply_pipeline(build_pipeline(req[t].neigh, req[t].scaler, req[t].params),
                             req[t].nutrition_input, dataset) :
       IF r.raised THEN Raise(t, r.error)
       ELSE /\ req' = [ req EXCEPT ![t].pc = "output",
                                   ![t].returned = "DataFrame",
                                   ![t].result = r.result ]
            /\ UNCHANGED << dataset, loads >>

\* recommend: build_pipeline, apply_pipeline and the return (model.py:100-103)
ApplyPipeline(t) ==
  /\ req[t].pc = "apply_pipeline"
  /\ \E r \in apply_pipeline(build_pipeline(req[t].neigh, req[t].scaler, req[t].params),
                             req[t].nutrition_input, req[t].extracted_data) :
       IF r.raised THEN Raise(t, r.error)
       ELSE /\ req' = [ req EXCEPT ![t].pc = "output",
                                   ![t].returned = "DataFrame",
                                   ![t].result = r.result ]
            /\ UNCHANGED << dataset, loads >>

\* predict_recipes after recommend returned (main.py:162-186); output is what
\* output_recommended_recipes returned, which is not called after None
Respond(returned, output) ==
  IF returned = "None"
  THEN [ status |-> 200, has_output |-> FALSE, output |-> <<>>, error |-> "",
         message |-> "No recipes found matching your criteria" ]
  ELSE IF output.is_none \/ Len(output.records) = 0
  THEN [ status |-> 200, has_output |-> FALSE, output |-> <<>>, error |-> "",
         message |-> "No recipes found after processing" ]
  ELSE [ status |-> 200, has_output |-> TRUE,
         output |-> output.records, error |-> "",
         message |-> "Successfully generated recipe recommendations" ]

\* the responses predict_recipes can give once recommend has returned
Responses(returned, result) ==
  IF returned = "None" THEN { Respond(returned, NoOutput) }
  ELSE { Respond(returned, output) : output \in output_recommended_recipes(result) }

\* a formatter that works on the frame itself: the ingredient cell of every
\* returned row of the catalog is overwritten by its first quoted string
OutputInPlace(t) ==
  /\ req[t].pc = "output"
  /\ \E response \in Responses(req[t].returned, req[t].result) :
       req' = [ req EXCEPT ![t].pc = "done", ![t].response = response ]
  /\ dataset' =
       [ i \in 1..Len(dataset) |->
           IF /\ \E j \in 1..Len(req[t].result) : req[t].result[j].index = dataset[i].index
              /\ extract_quoted_strings(dataset[i].RecipeIngredientParts) # <<>>
           THEN [ dataset[i] EXCEPT !.RecipeIngredientParts =
                    Head(extract_quoted_strings(dataset[i].RecipeIngredientParts)) ]
           ELSE dataset[i] ]
  /\ UNCHANGED loads

\* a formatter that works without the copy: the lists are written into the
\* rows of the result it was given
OutputOverwritesResult(t) ==
  /\ req[t].pc = "output"
  /\ \E response \in Responses(req[t].returned, req[t].result) :
       req' = [ req EXCEPT
                 ![t].pc = "done",
                 ![t].response = response,
                 ![t].result =
                   [ j \in 1..Len(req[t].result) |->
                       [ req[t].result[j] EXCEPT
                           !.RecipeIngredientParts =
                             extract_quoted_strings(req[t].result[j].RecipeIngredientParts),
                           !.RecipeInstructions =
                             extract_quoted_strings(req[t].result[j].RecipeInstructions) ] ] ]
  /\ UNCHANGED << dataset, loads >>

Output(t) ==
  /\ req[t].pc = "output"
  /\ \E response \in Responses(req[t].returned, req[t].result) :
       req' = [ req EXCEPT ![t].pc = "done", ![t].response = response ]
  /\ UNCHANGED << dataset, loads >>

\* predict_recipes returns: the response is sent and the locals are dropped
Return(t) ==
  /\ req[t].pc = "done"
  /\ req' = [ req EXCEPT ![t] = IdleRequest ]
  /\ UNCHANGED << dataset, loads >>

Step(t) ==
  \/ ExtractData(t)
  \/ Scaling(t)
  \/ NNPredictor(t)
  \/ ApplyPipeline(t)
  \/ Output(t)
  \/ Return(t)

\* the server: one request at a time
Next ==
  \E t \in EventLoop :
    \/ \E in \in PredictionIn : PredictRecipes(t, in)
    \/ Step(t)

Spec == Init /\ [][Next]_vars

\* clients on several threads, each running the same calls over one catalog,
\* their steps interleaved in any order
ConcInit ==
  /\ dataset \in ThreadCatalogs
  /\ req = [ t \in Threads |-> IdleRequest ]
  /\ loads = 0

ConcNext ==
  \E t \in Threads :
    \/ \E in \in ThreadInputs : PredictRecipes(t, in)
    \/ Step(t)

ConcSpec == ConcInit /\ [][ConcNext]_vars

\* the server over catalogs in which rows and targets fall on the column means
NeighborInit ==
  /\ dataset \in NeighborCatalogs
  /\ req = [ t \in Threads |-> IdleRequest ]
  /\ loads = 0

NeighborNext ==
  \E t \in EventLoop :
    \/ \E in \in NeighborInputs : PredictRecipes(t, in)
    \/ Step(t)

NeighborSpec == NeighborInit /\ [][NeighborNext]_vars

\* the server over catalogs whose text cells take every shape
TextInit ==
  /\ dataset \in TextCatalogs
  /\ req = [ t \in Threads |-> IdleRequest ]
  /\ loads = 0

TextNext ==
  \E t \in EventLoop :
    \/ \E in \in TextInputs : PredictRecipes(t, in)
    \/ Step(t)

TextSpec == TextInit /\ [][TextNext]_vars

---------------------------------------------------------------------------
(* One call run alone, start to end *)

\* recommend(dataframe, _input, ingredients, params): the ways it can end
recommend(dataframe, input, ingredients, params) ==
  LET extracted_data == extract_data(dataframe, ingredients)
      s == scaling(extracted_data)
      n == nn_predictor(s.prep_data)
  IN  IF Len(extracted_data) < params.n_neighbors
      THEN { [ returned |-> "None", error |-> "", result |-> NoFrame ] }
      ELSE IF s.raised
      THEN { [ returned |-> "raised", error |-> s.error, result |-> NoFrame ] }
      ELSE IF n.raised
      THEN { [ returned |-> "raised", error |-> n.error, result |-> NoFrame ] }
      ELSE { [ returned |-> IF r.raised THEN "raised" ELSE "DataFrame",
               error |-> r.error, result |-> r.result ] :
               r \in apply_pipeline(build_pipeline(n, s.scaler, params),
                                    input, extracted_data) }

\* predict_recipes(prediction_input) over the loaded dataset: its responses
predict_recipes(dataframe, input, ingredients, params) ==
  IF dataframe = <<>> THEN { LoadErrorResponse("Dataset is empty") }
  ELSE UNION { IF r.returned = "raised" THEN { ErrorResponse(r.error) }
               ELSE Responses(r.returned, r.result) :
                 r \in recommend(dataframe, input, ingredients, params) }

---------------------------------------------------------------------------
(* Properties *)

\* recommend() has ended in thread t, by a return or by an exception
Ended(t) == req[t].returned # "pending"

\* extract_data has returned in thread t: req[t].extracted_data is the
\* ingredient-filtered subset of its request
Extracted(t) ==
  \/ req[t].pc \in { "scaling", "nn_predictor", "apply_pipeline", "output" }
  \/ Ended(t)

Labels(dataframe) == { dataframe[i].index : i \in 1..Len(dataframe) }

Rows(dataframe) == { dataframe[i] : i \in 1..Len(dataframe) }

\* C1: whenever the ingredient-filtered subset has fewer rows than k >= 1
\* (the empty subset included), recommend() returns None: it does not raise
\* and it returns no rows, and the caller is answered without an error.
C1_NoResultWhenSubsetTooSmall ==
  \A t \in Threads :
    ( /\ Ended(t)
      /\ req[t].params.n_neighbors >= 1
      /\ Len(req[t].extracted_data) < req[t].params.n_neighbors )
    => /\ req[t].returned = "None"
       /\ req[t].result = NoFrame
       /\ req[t].pc = "done" =>
            /\ req[t].response.status = 200
            /\ req[t].response.error = ""
            /\ ~req[t].response.has_output

\* a request with a subset that is not empty and still shorter than k has ended
C1_Witness ==
  \E t \in Threads :
    /\ req[t].pc = "done"
    /\ Ended(t)
    /\ Len(req[t].extracted_data) >= 1
    /\ Len(req[t].extracted_data) < req[t].params.n_neighbors
    /\ Len(req[t].extracted_data) < Len(dataset)

\* C2: for a request with k >= 1 and return_distance false whose filtered
\* subset has at least k rows, all with numeric nutrition cells, recommend()
\* returns exactly k rows of the filtered subset, no row twice.
C2_ExactlyKDistinctRows ==
  \A t \in Threads :
    ( /\ Ended(t)
      /\ req[t].params.n_neighbors >= 1
      /\ ~req[t].params.return_distance
      /\ Len(req[t].extracted_data) >= req[t].params.n_neighbors
      /\ ~HasNaN(req[t].extracted_data) )
    => /\ req[t].returned = "DataFrame"
       /\ Len(req[t].result) = req[t].params.n_neighbors
       /\ Cardinality(Labels(req[t].result)) = req[t].params.n_neighbors
       /\ Rows(req[t].result) \subseteq Rows(req[t].extracted_data)

\* a request has returned k = 2 rows out of a subset of more than 2
C2_Witness ==
  \E t \in Threads :
    /\ req[t].returned = "DataFrame"
    /\ req[t].params.n_neighbors = 2
    /\ Len(req[t].result) = 2
    /\ Len(req[t].extracted_data) > 2

\* the standardized nutrition vector of a row of thread t's filtered subset,
\* and of its target, by the mean and deviation of that subset
OwnScaler(t) == FitScaler(req[t].extracted_data)

Standardized(t, x) == Transform(OwnScaler(t), x)

\* row a of thread t's subset is at most as far from the target as row b
Closer(t, a, b) ==
  DistLeq(OwnScaler(t), Standardized(t, a.nutrition), Standardized(t, b.nutrition),
          Standardized(t, req[t].nutrition_input))

\* C3: the rows recommend() returns are k rows of the filtered subset, no row
\* left out is strictly closer (in cosine distance between standardized
\* vectors) to the target than a row returned, and they are listed in
\* non-decreasing distance.
C3_KNearestInOrder ==
  \A t \in Threads :
    req[t].returned = "DataFrame"
    => /\ Len(req[t].result) = req[t].params.n_neighbors
       /\ Rows(req[t].result) \subseteq Rows(req[t].extracted_data)
       /\ \A j \in 1..(Len(req[t].result) - 1) :
            Closer(t, req[t].result[j], req[t].result[j + 1])
       /\ \A i \in 1..Len(req[t].extracted_data) :
            req[t].extracted_data[i].index \notin Labels(req[t].result)
            => \A j \in 1..Len(req[t].result) :
                 Closer(t, req[t].result[j], req[t].extracted_data[i])

\* a request has returned 2 rows at different distances and left out a row
\* that is strictly farther than both
C3_Witness ==
  \E t \in Threads :
    /\ req[t].returned = "DataFrame"
    /\ Len(req[t].result) = 2
    /\ ~Closer(t, req[t].result[2], req[t].result[1])
    /\ \E i \in 1..Len(req[t].extracted_data) :
         /\ req[t].extracted_data[i].index \notin Labels(req[t].result)
         /\ ~Closer(t, req[t].extracted_data[i], req[t].result[2])

\* text s contains the term as a plain, case-insensitive substring
ContainsLiteral(term, s) ==
  /\ s # NaNText
  /\ \E q \in 0..Len(s) :
       /\ q + Len(term) <= Len(s)
       /\ \A i \in 1..Len(term) : Lower(term[i]) = Lower(s[q + i])

LiteralFilter(dataframe, ingredients) ==
  SelectSeq(dataframe,
            LAMBDA row : \A j \in 1..Len(ingredients) :
                           ContainsLiteral(ingredients[j], row.RecipeIngredientParts))

\* C4: for a term list that is not empty, the filter returns exactly the rows
\* whose ingredient text contains every term as a plain case-insensitive
\* substring, in catalog order.  (Stated where the composed pattern compiles
\* and no row lacks its ingredient text.)
C4_FilterIsLiteralConjunction ==
  \A t \in Threads :
    ( /\ Extracted(t)
      /\ req[t].ingredients # <<>>
      /\ PatternCompiles(req[t].ingredients)
      /\ ~MaskHasNaN(dataset) )
    => req[t].extracted_data = LiteralFilter(dataset, req[t].ingredients)

\* C5: when the composed pattern does not compile, the filter returns every
\* row of the catalog in catalog order, and the request ends as the same
\* request without ingredient terms ends.
C5_InvalidPatternFailsOpen ==
  \A t \in Threads :
    ( /\ Extracted(t)
      /\ req[t].ingredients # <<>>
      /\ ~PatternCompiles(req[t].ingredients) )
    => /\ req[t].extracted_data = dataset
       /\ req[t].pc = "done" =>
            req[t].response \in
              predict_recipes(dataset, req[t].nutrition_input, <<>>, req[t].params)

\* a request with a term that does not compile has been answered with recipes
\* although no ingredient text holds the term
C5_Witness ==
  \E t \in Threads :
    /\ req[t].pc = "done"
    /\ req[t].ingredients # <<>>
    /\ ~PatternCompiles(req[t].ingredients)
    /\ req[t].response.has_output
    /\ LiteralFilter(dataset, req[t].ingredients) = <<>>

\* C6: with an empty term list the filter returns every row of the catalog,
\* in catalog order, unchanged.
C6_EmptyQueryKeepsCatalog ==
  \A t \in Threads :
    (Extracted(t) /\ req[t].ingredients = <<>>) => req[t].extracted_data = dataset

\* a request without terms has been filtered over a catalog that holds a row
\* without ingredient text
C6_Witness ==
  \E t \in Threads :
    /\ Extracted(t)
    /\ req[t].ingredients = <<>>
    /\ MaskHasNaN(dataset)
    /\ Len(req[t].extracted_data) > 1

\* C7: with return_distance true and a filtered subset of at least k rows,
\* recommend() completes and returns the records the same request returns
\* with return_distance false, in the same order.
C7_ReturnDistanceSameRecords ==
  \A t \in Threads :
    ( /\ Ended(t)
      /\ req[t].params.return_distance
      /\ req[t].params.n_neighbors >= 1
      /\ Len(req[t].extracted_data) >= req[t].params.n_neighbors
      /\ ~HasNaN(req[t].extracted_data) )
    => /\ req[t].returned = "DataFrame"
       /\ \E r \in recommend(dataset, req[t].nutrition_input, req[t].ingredients,
                             [ req[t].params EXCEPT !.return_distance = FALSE ]) :
            r.result = req[t].result

\* C8: no step of a request changes the catalog, whether the request ends in
\* recipes, in no result or in an error.
C8_CatalogNeverMutated == [][dataset' = dataset]_vars

\* a request has been answered with formatted recipes
C8_Witness ==
  \E t \in Threads :
    /\ req[t].pc = "done"
    /\ req[t].response.has_output
    /\ Len(req[t].response.output) >= 2

\* C9: under every interleaving of the threads' steps, the response of each
\* call is a response the same call has when it runs alone over the catalog.
C9_ConcurrentCallsIndependent ==
  \A t \in Threads :
    req[t].pc = "done"
    => req[t].response \in
         predict_recipes(dataset, req[t].nutrition_input, req[t].ingredients,
                         req[t].params)

\* two calls with different filtered subsets are in flight together, one
\* answered with recipes while the other holds its own fitted index
C9_Witness ==
  \E t, u \in Threads :
    /\ t # u
    /\ req[t].pc = "done"
    /\ req[t].response.has_output
    /\ req[u].pc = "apply_pipeline"
    /\ Len(req[u].extracted_data) # Len(req[t].extracted_data)

\* thread t's request ends in an error in this step
Fails(t) == req[t].returned # "raised" /\ req'[t].returned = "raised"

\* C10: a failure inside the pipeline (a missing nutrition cell in the
\* filtered subset does fail it) ends the request with status 500 and an
\* error text, and touches neither the catalog nor another request; when the
\* failed request has returned, the catalog and the thread are as they were
\* before it was issued, so what follows runs as if it had never run.
C10_FailureIsContained ==
  [][ \A t \in Threads :
        /\ Fails(t) =>
             /\ req'[t].pc = "done"
             /\ req'[t].response.status = 500
             /\ req'[t].response.error # ""
             /\ ~req'[t].response.has_output
             /\ dataset' = dataset
             /\ \A u \in Threads \ {t} : req'[u] = req[u]
        /\ (req[t].pc = "nn_predictor" /\ HasNaN(req[t].extracted_data)
              /\ req'[t] # req[t])
             => Fails(t)
        /\ (req[t].returned = "raised" /\ req'[t] # req[t]) =>
             /\ req'[t] = IdleRequest
             /\ dataset' = dataset
             /\ dataset \in Catalogs ]_vars

\* a request over a subset with a missing nutrition cell has been answered by an error
C10_Witness ==
  \E t \in Threads :
    /\ req[t].pc = "done"
    /\ req[t].returned = "raised"
    /\ HasNaN(req[t].extracted_data)
    /\ req[t].params.n_neighbors >= 1
    /\ req[t].response.status = 500

\* the three outcomes a caller can see
IsResultList(response) ==
  response.status = 200 /\ response.has_output /\ response.error = ""

IsNoResult(response) ==
  response.status = 200 /\ ~response.has_output /\ response.error = ""

IsError(response) ==
  response.status = 500 /\ ~response.has_output /\ response.error # ""

\* C11: an answered request shows exactly one of a result list, NoResult or
\* an error with a reason; NoResult is shown only when the filtered subset is
\* smaller than k, and a request in which a step failed, the formatting of
\* the result included, shows an error.
C11_OutcomesNeverConfused ==
  \A t \in Threads :
    req[t].pc = "done"
    => /\ \/ IsResultList(req[t].response)
          \/ IsNoResult(req[t].response)
          \/ IsError(req[t].response)
       /\ IsNoResult(req[t].response)
            => /\ req[t].returned = "None"
               /\ Len(req[t].extracted_data) < req[t].params.n_neighbors
       /\ req[t].returned = "raised" => IsError(req[t].response)

\* the offsets of the double quotes of s, and the i-th of them
QuoteOffsets(s) == { i \in 1..Len(s) : s[i] = Q }

NthQuote(s, i) ==
  CHOOSE p \in QuoteOffsets(s) : Cardinality({ q \in QuoteOffsets(s) : q < p }) = i - 1

\* what lies between the 1st and 2nd quote, the 3rd and 4th, and so on
PairContents(s) ==
  IF s = NaNText THEN <<>>
  ELSE [ i \in 1..(Cardinality(QuoteOffsets(s)) \div 2) |->
           SubSeq(s, NthQuote(s, 2 * i - 1) + 1, NthQuote(s, 2 * i) - 1) ]

C14_FilterIsIdempotent ==
  \A t \in Threads :
    Extracted(t)
    => extract_ingredient_filtered_data(req[t].extracted_data, req[t].ingredients)
         = req[t].extracted_data

\* a list with overlapping terms has kept some rows of the catalog and dropped others
C14_Witness ==
  \E t \in Threads :
    /\ Extracted(t)
    /\ Len(req[t].ingredients) = 2
    /\ req[t].extracted_data # <<>>
    /\ Len(req[t].extracted_data) < Len(dataset)
    /\ extract_ingredient_filtered_data(req[t].extracted_data, req[t].ingredients)
         = req[t].extracted_data

\* scaling() has returned in thread t: req[t].prep_data holds the standardized subset
Scaled(t) == req[t].prep_data.X # <<>>

\* every row of the frame holds the same number in column c
ConstantColumn(dataframe, c) ==
  /\ \A i \in 1..Len(dataframe) : dataframe[i].nutrition[c] # NaN
  /\ \A i, j \in 1..Len(dataframe) : dataframe[i].nutrition[c] = dataframe[j].nutrition[c]

VaryingColumn(dataframe, c) ==
  /\ \A i \in 1..Len(dataframe) : dataframe[i].nutrition[c] # NaN
  /\ \E i, j \in 1..Len(dataframe) : dataframe[i].nutrition[c] # dataframe[j].nutrition[c]

ColumnSum(dataframe, c) ==
  SumOver([ i \in 1..Len(dataframe) |-> dataframe[i].nutrition[c] ], 1..Len(dataframe))

\* C16: in a column whose values are not all equal, each standardized value
\* is (value - mean) / deviation with the mean and the deviation of the
\* filtered subset, and the standardized column has mean 0 and deviation 1:
\* with d = sqrt(scaler.var[c]) the value is X[i][c] / d, so the sum of the
\* X[i][c] is 0 and the sum of their squares is n * scaler.var[c].
C16_StandardizedMeanAndDeviation ==
  \A t \in Threads :
    Scaled(t)
    => \A c \in Cols :
         VaryingColumn(req[t].extracted_data, c)
         => LET n == Len(req[t].extracted_data)
                X == req[t].prep_data.X
            IN  /\ req[t].scaler.var[c] > 0
                /\ \A i \in 1..n :
                     X[i][c] = n * req[t].extracted_data[i].nutrition[c]
                                 - ColumnSum(req[t].extracted_data, c)
                /\ SumOver([ i \in 1..n |-> X[i][c] ], 1..n) = 0
                /\ SumOver([ i \in 1..n |-> X[i][c] * X[i][c] ], 1..n)
                     = n * req[t].scaler.var[c]

\* a subset of three rows with three different values in a column has been scaled
C16_Witness ==
  \E t \in Threads :
    /\ Scaled(t)
    /\ Len(req[t].extracted_data) = 3
    /\ Len(req[t].extracted_data) < Len(dataset) \/ req[t].ingredients = <<>>
    /\ \E c \in Cols :
         /\ VaryingColumn(req[t].extracted_data, c)
         /\ Cardinality({ req[t].prep_data.X[i][c] : i \in 1..3 }) = 3

\* C17: the dataset file is read at most once, however many requests are handled.
C17_CatalogLoadedOnce == loads <= 1

\* C18: in a column whose deviation over the filtered subset is zero, the
\* standardized target is 0 as well, whatever the target's value there.
C18_TargetZeroInConstantColumn ==
  \A t \in Threads :
    (Scaled(t) /\ req[t].returned = "DataFrame")
    => \A c \in Cols :
         req[t].scaler.var[c] = 0
         => Transform(req[t].scaler, req[t].nutrition_input)[c] = 0

\* C19: the scaler a request standardizes its rows and its target with is
\* the one fitted on that request's own filtered subset, after any number of
\* earlier requests, and the rows returned are neighbours by that scaler.
C19_ScalerFittedOnOwnSubset ==
  \A t \in Threads :
    Scaled(t)
    => LET subset == extract_ingredient_filtered_data(dataset, req[t].ingredients)
           own == FitScaler(subset)
           X == [ i \in 1..Len(subset) |-> Transform(own, subset[i].nutrition) ]
       IN  /\ req[t].scaler = own
           /\ ~HasNaN(subset) => req[t].prep_data.X = X
           /\ req[t].returned = "DataFrame"
                => \E p \in kneighbors(own, X, Transform(own, req[t].nutrition_input),
                                       req[t].params.n_neighbors) :
                     req[t].result = Iloc(subset, p)

\* a later request has returned rows of a filtered subset whose means and
\* deviations are not those of the catalog
C19_Witness ==
  \E t \in Threads :
    /\ loads = MaxLoads
    /\ req[t].returned = "DataFrame"
    /\ Len(req[t].extracted_data) < Len(dataset)
    /\ req[t].scaler # FitScaler(dataset)

\* the standardized vector of a row of thread t's subset is the zero vector
ZeroRow(t, row) == IsZero(Standardized(t, row.nutrition))

ZeroTarget(t) == IsZero(Standardized(t, req[t].nutrition_input))

\* the sign of the cosine similarity of a row and the target: 0 is distance 1,
\* 1 a distance below 1, -1 a distance above 1
Similarity(t, row) ==
  Sign(DotN(OwnScaler(t), Standardized(t, row.nutrition),
            Standardized(t, req[t].nutrition_input)))

\* C20: when the standardized target or a standardized row is the zero
\* vector, the search does not fail and returns k rows, and such a row is
\* ranked at distance exactly 1: after every row nearer than 1 and before
\* every row farther than 1; with a zero target every row is at distance 1.
C20_ZeroVectorAtDistanceOne ==
  \A t \in Threads :
    ( /\ Ended(t)
      /\ req[t].params.n_neighbors >= 1
      /\ ~req[t].params.return_distance
      /\ Len(req[t].extracted_data) >= req[t].params.n_neighbors
      /\ ~HasNaN(req[t].extracted_data)
      /\ \/ ZeroTarget(t)
         \/ \E i \in 1..Len(req[t].extracted_data) : ZeroRow(t, req[t].extracted_data[i]) )
    => /\ req[t].returned = "DataFrame"
       /\ Len(req[t].result) = req[t].params.n_neighbors
       /\ \A i \in 1..Len(req[t].extracted_data) :
            LET row == req[t].extracted_data[i]
            IN  (ZeroRow(t, row) \/ ZeroTarget(t))
                => /\ CosKey(OwnScaler(t), Standardized(t, row.nutrition),
                             Standardized(t, req[t].nutrition_input)).sgn = 0
                   /\ \A j \in 1..Len(req[t].result) :
                        LET other == req[t].result[j]
                        IN  /\ (row.index \notin Labels(req[t].result))
                                 => Similarity(t, other) >= 0
                            /\ \A m \in 1..Len(req[t].result) :
                                 (req[t].result[m].index = row.index /\ m < j)
                                 => Similarity(t, other) <= 0
                            /\ \A m \in 1..Len(req[t].result) :
                                 (req[t].result[m].index = row.index /\ m > j)
                                 => Similarity(t, other) >= 0

\* two rows have been returned out of three: one nearer than 1 first, then a
\* row that is the zero vector, the row farther than 1 left out
C20_Witness ==
  \E t \in Threads :
    /\ req[t].returned = "DataFrame"
    /\ Len(req[t].extracted_data) = 3
    /\ Len(req[t].result) = 2
    /\ Similarity(t, req[t].result[1]) = 1
    /\ ZeroRow(t, req[t].result[2])
    /\ \E i \in 1..3 : Similarity(t, req[t].extracted_data[i]) = -1

\* the place of the row with this label in a frame
PositionOf(dataframe, label) ==
  CHOOSE i \in 1..Len(dataframe) : dataframe[i].index = label

\* rows a and b of thread t's subset are equally far from the target
SameDistance(t, a, b) == Closer(t, a, b) /\ Closer(t, b, a)

\* C21: rows at the same cosine distance from the target appear in the
\* result in their order in the filtered subset, and of equidistant rows
\* around the k-th place those that come first in the subset are returned.
C21_TiesKeepSubsetOrder ==
  \A t \in Threads :
    req[t].returned = "DataFrame"
    => /\ \A j, m \in 1..Len(req[t].result) :
            (j < m /\ SameDistance(t, req[t].result[j], req[t].result[m]))
            => PositionOf(req[t].extracted_data, req[t].result[j].index)
                 < PositionOf(req[t].extracted_data, req[t].result[m].index)
       /\ \A i \in 1..Len(req[t].extracted_data) :
            req[t].extracted_data[i].index \notin Labels(req[t].result)
            => \A j \in 1..Len(req[t].result) :
                 SameDistance(t, req[t].extracted_data[i], req[t].result[j])
                 => PositionOf(req[t].extracted_data, req[t].result[j].index) < i

\* C22: the i-th record returned is the row of the filtered subset at the
\* i-th position the search returned (a position in the subset, not a place
\* or a label in the catalog); every record belongs to the subset and the
\* records are in the search's order of non-decreasing distance.
C22_PositionsAreSubsetRelative ==
  \A t \in Threads :
    req[t].returned = "DataFrame"
    => /\ \E p \in kneighbors(req[t].scaler, req[t].neigh.fit_X,
                               Transform(req[t].scaler, req[t].nutrition_input),
                               req[t].params.n_neighbors) :
            /\ Len(req[t].result) = Len(p)
            /\ \A i \in 1..Len(p) : req[t].result[i] = req[t].extracted_data[p[i] + 1]
       /\ \A i \in 1..Len(req[t].result) :
            \E j \in 1..Len(req[t].extracted_data) :
              req[t].result[i] = req[t].extracted_data[j]
       /\ \A i \in 1..(Len(req[t].result) - 1) :
            Closer(t, req[t].result[i], req[t].result[i + 1])

\* a record has been returned whose place in the filtered subset is neither
\* its label nor its place in the catalog, where another recipe stands
C22_Witness ==
  \E t \in Threads :
    /\ req[t].returned = "DataFrame"
    /\ Len(req[t].extracted_data) < Len(dataset)
    /\ \E i \in 1..Len(req[t].result) :
         LET pos == PositionOf(req[t].extracted_data, req[t].result[i].index)
         IN  /\ pos - 1 # req[t].result[i].index
             /\ dataset[pos].Name # req[t].result[i].Name

\* C23: with k <= 0 the size check passes whatever the filtered subset, so
\* recommend() returns neither None nor rows: it raises, also over an empty
\* subset, and the request is answered by an error.
C23_NonPositiveKEndsInError ==
  \A t \in Threads :
    req[t].params.n_neighbors <= 0
    => /\ req[t].pc # "output"
       /\ req[t].returned \in { "pending", "raised" }
       /\ req[t].pc = "done"
            => /\ req[t].returned = "raised"
               /\ IsError(req[t].response)

\* a request with k <= 0 whose filtered subset is empty has been answered by an error
C23_Witness ==
  \E t \in Threads :
    /\ req[t].pc = "done"
    /\ req[t].params.n_neighbors <= 0
    /\ req[t].ingredients # <<>>
    /\ req[t].extracted_data = <<>>
    /\ dataset # <<>>
    /\ IsError(req[t].response)

\* a term list that is not empty and holds empty strings only
OnlyEmptyTerms(ingredients) ==
  /\ ingredients # <<>>
  /\ \A j \in 1..Len(ingredients) : ingredients[j] = <<>>

\* C24: a term list of empty strings only filters nothing: every row with
\* ingredient text is kept, the subset is that of the empty term list, and
\* the request is answered as the same request with the empty term list.
C24_BlankTermsFilterNothing ==
  \A t \in Threads :
    (Extracted(t) /\ OnlyEmptyTerms(req[t].ingredients))
    => /\ \A i \in 1..Len(dataset) :
            dataset[i].RecipeIngredientParts # NaNText
            => \E j \in 1..Len(req[t].extracted_data) :
                 req[t].extracted_data[j] = dataset[i]
       /\ req[t].extracted_data = extract_ingredient_filtered_data(dataset, <<>>)
       /\ req[t].pc = "done"
            => req[t].response \in
                 predict_recipes(dataset, req[t].nutrition_input, <<>>, req[t].params)

\* a request with one empty term has been answered with recipes out of a
\* catalog in which every row has its ingredient text
C24_Witness ==
  \E t \in Threads :
    /\ req[t].pc = "done"
    /\ OnlyEmptyTerms(req[t].ingredients)
    /\ ~MaskHasNaN(dataset)
    /\ Len(req[t].extracted_data) >= 2
    /\ req[t].response.has_output

\* C25: with terms given, a row without ingredient text is left out of the
\* filtered subset and the rows with text are filtered by the terms as ever.
C25_MissingTextRowLeftOut ==
  \A t \in Threads :
    ( /\ Extracted(t)
      /\ req[t].ingredients # <<>>
      /\ PatternCompiles(req[t].ingredients) )
    => req[t].extracted_data
         = SelectRows(SelectSeq(dataset, LAMBDA row : row.RecipeIngredientParts # NaNText),
                      req[t].ingredients)

\* C26: output_recommended_recipes gives one record per record of the
\* result, in the same order, the i-th with the name, the three duration
\* labels and the nine nutrition values of the i-th row and with the two
\* text fields as lists; the result it was given is as it was before.
C26_FormatterKeepsRecords ==
  [][ \A t \in Threads :
        (req[t].pc = "output" /\ req'[t].pc = "done")
        => /\ req'[t].result = req[t].result
           /\ req'[t].response.has_output
                => /\ Len(req'[t].response.output) = Len(req[t].result)
                   /\ \A i \in 1..Len(req[t].result) :
                        LET row == req[t].result[i]
                            record == req'[t].response.output[i]
                        IN  /\ record.Name = row.Name
                            /\ record.CookTime = row.CookTime
                            /\ record.PrepTime = row.PrepTime
                            /\ record.TotalTime = row.TotalTime
                            /\ record.nutrition = row.nutrition
                            /\ DOMAIN record = (DOMAIN row) \ {"index"}
                            /\ record.RecipeIngredientParts
                                 = extract_quoted_strings(row.RecipeIngredientParts)
                            /\ record.RecipeInstructions
                                 = extract_quoted_strings(row.RecipeInstructions) ]_vars

\* three records of different recipes have been formatted, in an order that
\* is not the order of the catalog, and the rows given are still text
C26_Witness ==
  \E t \in Threads :
    /\ req[t].pc = "done"
    /\ req[t].response.has_output
    /\ Len(req[t].response.output) = 3
    /\ Cardinality({ req[t].response.output[i].Name : i \in 1..3 }) = 3
    /\ req[t].result # req[t].extracted_data
    /\ \A i \in 1..3 :
         /\ req[t].response.output[i].Name = req[t].result[i].Name
         /\ req[t].result[i].RecipeIngredientParts
              \in { dataset[j].RecipeIngredientParts : j \in 1..Len(dataset) }

=============================================================================
